---- MODULE Spec2Model ----
(***************************************************************************)
(* Model of the logsentinel batching/dispatch engine: LogQueue             *)
(* (src/core/sender.ts) and ConfigManager (src/core/config.ts).            *)
(*                                                                         *)
(* Node.js runs the queue on one thread.  A step of the model is one       *)
(* macrotask (a push by the host, a timer tick, a signal, the answer to    *)
(* an outbound request, the expiry of a retry delay) together with the     *)
(* promise reactions (microtasks) it schedules, which run before the next  *)
(* macrotask.  The one place where host code runs between a flush and its  *)
(* promise reactions is a push whose sendBatch returns without awaiting    *)
(* (invalid configuration): the host may go on pushing synchronously       *)
(* before the reactions run; that window is the phase "settling".          *)
(***************************************************************************)
EXTENDS Integers, Sequences, FiniteSets, TLC

\* ---------------------------------------------------------------- bounds
\* sender.ts:9 sets MAX_QUEUE_SIZE = 1000 and sender.ts:14 BATCH_SIZE = 50;
\* the model keeps their role and their order (BATCH_SIZE < MAX_QUEUE_SIZE)
\* at a scale TLC can enumerate.
MAX_QUEUE_SIZE == 3
BATCH_SIZE == 2
\* number of push calls the host makes in a run
MaxPush == 7
\* number of termination signals delivered in a run (SIGTERM, SIGINT)
MaxSignals == 2
\* number of push calls in a run of the fair specification
MaxLivePush == 4

\* ------------------------------------------------------- program constants
MAX_RETRIES == 3
INITIAL_RETRY_DELAY == 1000

VARIABLES
  queue,            \* LogQueue.queue: pending events, oldest first
  isFlushing,       \* LogQueue.isFlushing
  isShuttingDown,   \* LogQueue.isShuttingDown
  flushTimer,       \* LogQueue.flushTimer # null
  config,           \* ConfigManager.config
  env,              \* process.env.LOGSENTINEL_API_KEY / _BASE_URL
  tasks,            \* the sendBatch call chains: 0 is flush()'s, n >= 1 the n-th signal's
  pushed,           \* number of push calls so far; the n-th call pushes event n
  signals,          \* number of termination signals handled so far
  batches,          \* history: every snapshot handed to sendBatch, in order
  shutdownComplete, \* history: number of shutdown() calls that ran to 'shutdown complete'
  onlyHostCalls,    \* history: only synchronous host calls (push, updateConfig) so far
  tickedAfterSignal, \* history: the timer callback ran after a signal was handled
  uncaught,         \* history: a rejected sendBatch promise reached no handler
  lastOp,           \* history: the operation of the last step
  lastIndex,        \* formatter.ts SENSITIVE_PATTERNS[p].lastIndex, p = 1..10
  sanIn,            \* the argument of the last sanitize call
  sanOut,           \* what that call returned
  sanExpanded,      \* history: the composites that call expanded, in order
  capIn,            \* the argument of the last capSize call
  capOut,           \* what that call returned
  hdrIn,            \* the argument of the last sanitizeHeaders call
  hdrOut,           \* what that call returned
  trEvent,          \* the LogEvent of the batch whose requests trPosts holds
  trPosts,          \* history: the axios.post calls made for it, one per attempt
  trNow,            \* Date.now() at the last of them
  mwReq,            \* the request in the capture middleware: its closure
  mwCrash           \* history: an exception of the middleware reached the host

vars == <<queue, isFlushing, isShuttingDown, flushTimer, config, env, tasks,
          pushed, signals, batches, shutdownComplete, onlyHostCalls,
          tickedAfterSignal, uncaught, lastOp, lastIndex, sanIn, sanOut,
          sanExpanded, capIn, capOut, hdrIn, hdrOut, trEvent, trPosts, trNow,
          mwReq, mwCrash>>

\* the state of utils/formatter.ts
svars == <<lastIndex, sanIn, sanOut, sanExpanded, capIn, capOut, hdrIn, hdrOut>>

\* the requests built by sendBatch
wvars == <<trEvent, trPosts, trNow>>

\* the capture middleware
mvars == <<mwReq, mwCrash>>

\* everything but the queue and the configuration
ovars == <<svars, wvars, mvars>>

\* the state of core/sender.ts and core/config.ts
qvars == <<queue, isFlushing, isShuttingDown, flushTimer, config, env, tasks,
           pushed, signals, batches, shutdownComplete, onlyHostCalls,
           tickedAfterSignal, uncaught, lastOp>>

TaskIds == 0..MaxSignals
FlushTask == 0

\* ------------------------------------------------------------ ConfigManager
KeyValues == {"", "key"}
UrlValues == {"", "url"}
\* explicitConfig.debug: left out, or a boolean
DebugValues == {"undefined", "true", "false"}
ExplicitConfigs == [apiKey : KeyValues, baseUrl : UrlValues, debug : DebugValues]
\* what the host passes to updateConfig while the queue runs: both set
\* (sender.test.ts:14), both empty (:149), the credential alone empty
HostConfigs ==
  {[apiKey |-> "key", baseUrl |-> "url", debug |-> "undefined"],
   [apiKey |-> "", baseUrl |-> "", debug |-> "undefined"],
   [apiKey |-> "", baseUrl |-> "url", debug |-> "undefined"]}
NoExplicit == [apiKey |-> "", baseUrl |-> "", debug |-> "undefined"]

\* a || b || '' on strings: the first non-empty one
\* (mutation: the explicit value is taken as it is)
OrElseExplicit(a, b) == a
OrElse(a, b) == IF a # "" THEN a ELSE b

loadConfig(explicitConfig, e) ==
  [apiKey  |-> OrElse(explicitConfig.apiKey, e.apiKey),
   baseUrl |-> OrElse(explicitConfig.baseUrl, e.baseUrl),
   debug   |-> IF explicitConfig.debug # "undefined"
                 THEN explicitConfig.debug = "true"
                 ELSE e.debug = "true"]

isValidEither(c) == c.apiKey # "" \/ c.baseUrl # ""
isValid(c) == c.apiKey # "" /\ c.baseUrl # ""

isConfigValid == isValid(config)

\* ------------------------------------------------------------------ helpers
\* wait: the duration of the retry timer a chain sleeps on (phase "delay"), else 0
Idle == [phase |-> "none", logs |-> <<>>, attempt |-> 0, idx |-> 0, wait |-> 0]

InFlight(t) == tasks[t].phase # "none"
OnWire(t) == tasks[t].phase \in {"post", "delay"}
MicrotaskPending == \E t \in TaskIds : tasks[t].phase = "settling"

RetryDelay(attempt) == INITIAL_RETRY_DELAY * (2 ^ (attempt - 1))

\* sendBatch(logs, attempt) up to its first await: either it returns at once
\* (configuration invalid) or the first event is posted and the call suspends.
sendBatch(logs, attempt, valid) ==
  IF ~valid
    THEN [phase |-> "returned", logs |-> logs, attempt |-> attempt, idx |-> 0,
          wait |-> 0]
    ELSE [phase |-> "post", logs |-> logs, attempt |-> attempt, idx |-> 1,
          wait |-> 0]


\* ------------------------------------------------------ utils/formatter.ts
\* Strings that the code inspects are sequences of characters.  A value is a
\* primitive, Str(s), or a reference Ref(i) to the composite heap[i]; a
\* composite is an object (its entries in Object.entries order) or an array
\* (its items, keyed by the empty name).  What sanitize returns is a fresh
\* tree: Str(s), or [t |-> "obj" / "arr", ents |-> ...].
Str(s) == [t |-> "str", s |-> s]
Ref(i) == [t |-> "ref", id |-> i]
Entry(k, v) == [k |-> k, v |-> v]
Obj(ents) == [kind |-> "obj", ents |-> ents]
Arr(items) == [kind |-> "arr", ents |-> [i \in 1..Len(items) |-> Entry(<<>>, items[i])]]

REDACTED == Str("[REDACTED]")
CIRCULAR == Str("[Circular Reference]")

\* the patterns, each as the set of lower-case literals it matches
\* (all carry the flags g and i)
SENSITIVE_PATTERNS ==
  <<{<<"p", "a", "s", "s", "w", "o", "r", "d">>},
    {<<"t", "o", "k", "e", "n">>},
    {<<"a", "p", "i", "k", "e", "y">>, <<"a", "p", "i", "_", "k", "e", "y">>, <<"a", "p", "i", "-", "k", "e", "y">>},
    {<<"s", "e", "c", "r", "e", "t">>},
    {<<"a", "u", "t", "h", "o", "r", "i", "z", "a", "t", "i", "o", "n">>},
    {<<"b", "e", "a", "r", "e", "r">>},
    {<<"a", "u", "t", "h">>},
    {<<"c", "r", "e", "d", "i", "t", "c", "a", "r", "d">>, <<"c", "r", "e", "d", "i", "t", "_", "c", "a", "r", "d">>, <<"c", "r", "e", "d", "i", "t", "-", "c", "a", "r", "d">>},
    {<<"s", "s", "n">>},
    {<<"s", "o", "c", "i", "a", "l", "s", "e", "c", "u", "r", "i", "t", "y">>, <<"s", "o", "c", "i", "a", "l", "_", "s", "e", "c", "u", "r", "i", "t", "y">>, <<"s", "o", "c", "i", "a", "l", "-", "s", "e", "c", "u", "r", "i", "t", "y">>}>>

PatternIds == 1..Len(SENSITIVE_PATTERNS)

\* the i flag: letters compare in lower case
Lower(c) ==
  CASE c = "A" -> "a"
    [] c = "B" -> "b"
    [] c = "C" -> "c"
    [] c = "D" -> "d"
    [] c = "E" -> "e"
    [] c = "F" -> "f"
    [] c = "G" -> "g"
    [] c = "H" -> "h"
    [] c = "I" -> "i"
    [] c = "J" -> "j"
    [] c = "K" -> "k"
    [] c = "L" -> "l"
    [] c = "M" -> "m"
    [] c = "N" -> "n"
    [] c = "O" -> "o"
    [] c = "P" -> "p"
    [] c = "Q" -> "q"
    [] c = "R" -> "r"
    [] c = "S" -> "s"
    [] c = "T" -> "t"
    [] c = "U" -> "u"
    [] c = "V" -> "v"
    [] c = "W" -> "w"
    [] c = "X" -> "x"
    [] c = "Y" -> "y"
    [] c = "Z" -> "z"
    [] OTHER -> c

\* the literal lit occurs in key at (0-based) offset s
MatchAt(lit, key, s) ==
  /\ s + Len(lit) <= Len(key)
  /\ \A i \in 1..Len(lit) : Lower(key[s + i]) = lit[i]

\* RegExp.prototype.test of a g-flagged pattern: the search starts at
\* lastIndex; a match leaves lastIndex behind it, a failure resets it to 0.
RegexTest(p, key, from) ==
  LET starts == {s \in from..Len(key) : \E lit \in SENSITIVE_PATTERNS[p] : MatchAt(lit, key, s)}
  IN IF starts = {}
       THEN [hit |-> FALSE, lastIndex |-> 0]
       ELSE LET s == CHOOSE x \in starts : \A y \in starts : x <= y
                lit == CHOOSE l \in SENSITIVE_PATTERNS[p] : MatchAt(l, key, s)
            IN [hit |-> TRUE, lastIndex |-> s + Len(lit)]

\* SENSITIVE_PATTERNS.some(pattern => pattern.test(key)), from pattern p on:
\* the patterns are tried in order up to the first that matches
RECURSIVE SomeTest(_, _, _)
SomeTest(key, li, p) ==
  IF p > Len(SENSITIVE_PATTERNS)
    THEN [hit |-> FALSE, li |-> li]
    ELSE LET r == RegexTest(p, key, li[p])
             li1 == [li EXCEPT ![p] = r.lastIndex]
         IN IF r.hit THEN [hit |-> TRUE, li |-> li1] ELSE SomeTest(key, li1, p + 1)

\* the one WeakSet of a call is handed down by reference: what a nested
\* call added to it is there for the entries and items that follow
\* (mutation: every nested call works on its own copy)
SeenAfterCopied(seen, r) == seen
SeenAfter(seen, r) == r.seen

\* recursiveSanitize(obj, seen); li is the patterns' lastIndex on entry, the
\* result carries the value returned, the grown seen set, the lastIndex left
\* behind and exp, the composites that were expanded (passed seen.has), in
\* order.  SanitizeEnts walks the entries (items) from index i on.
RECURSIVE recursiveSanitize(_, _, _, _)
RECURSIVE SanitizeEnts(_, _, _, _, _, _, _, _)
SanitizeEnts(heap, kind, ents, i, seen, li, acc, exp) ==
  IF i > Len(ents)
    THEN [out |-> [t |-> kind, ents |-> acc], seen |-> seen, li |-> li, exp |-> exp]
    ELSE LET e == ents[i]
         IN IF kind = "arr"
              THEN LET r == recursiveSanitize(heap, e.v, seen, li)
                   IN SanitizeEnts(heap, kind, ents, i + 1, SeenAfter(seen, r), r.li,
                                   Append(acc, Entry(e.k, r.out)), exp \o r.exp)
              ELSE LET isSensitive == SomeTest(e.k, li, 1)
                   IN IF isSensitive.hit
                        THEN SanitizeEnts(heap, kind, ents, i + 1, seen, isSensitive.li,
                                          Append(acc, Entry(e.k, REDACTED)), exp)
                        ELSE IF e.v.t = "ref"
                          THEN LET r == recursiveSanitize(heap, e.v, seen, isSensitive.li)
                               IN SanitizeEnts(heap, kind, ents, i + 1, SeenAfter(seen, r), r.li,
                                               Append(acc, Entry(e.k, r.out)), exp \o r.exp)
                          ELSE SanitizeEnts(heap, kind, ents, i + 1, seen, isSensitive.li,
                                            Append(acc, Entry(e.k, e.v)), exp)

recursiveSanitize(heap, val, seen, li) ==
  IF val.t # "ref"
    THEN [out |-> val, seen |-> seen, li |-> li, exp |-> <<>>]
    ELSE IF val.id \in seen
      THEN [out |-> CIRCULAR, seen |-> seen, li |-> li, exp |-> <<>>]
      ELSE SanitizeEnts(heap, heap[val.id].kind, heap[val.id].ents, 1,
                        seen \cup {val.id}, li, <<>>, <<val.id>>)

\* sanitize(obj) for the argument in = [heap, root]
sanitize(in, li) == recursiveSanitize(in.heap, in.root, {}, li)

\* ---- the arguments sanitize is called with
\* most entries (items) of a generated composite
MaxEnts == 2
K_name == <<"n", "a", "m", "e">>
K_password == <<"p", "a", "s", "s", "w", "o", "r", "d">>
K_username == <<"u", "s", "e", "r", "n", "a", "m", "e">>
K_apiKey == <<"a", "p", "i", "K", "e", "y">>
K_token == <<"t", "o", "k", "e", "n">>
K_user == <<"u", "s", "e", "r">>
K_auth == <<"a", "u", "t", "h">>
K_self == <<"s", "e", "l", "f">>

\* generated: a root composite whose values are a primitive, the root itself
\* or a second composite; the second composite is an object that holds a
\* sensitive name or refers back to the root
GenValues == {Str("v"), Ref(1), Ref(2)}
GenObjects ==
  {Obj(<<>>)}
    \cup {Obj(<<Entry(k, v)>>) : k \in {K_name, K_password}, v \in GenValues}
    \cup {Obj(<<Entry(K_name, v), Entry(K_password, w)>>) : v \in GenValues, w \in GenValues}
GenArrays ==
  UNION {{Arr(items) : items \in [1..n -> GenValues]} : n \in 1..MaxEnts}
GenSeconds ==
  {Obj(<<Entry(K_password, Str("v"))>>),
   Obj(<<Entry(K_name, Str("v")), Entry(K_password, Str("v"))>>),
   Obj(<<Entry(K_name, Ref(1))>>)}
GenInputs ==
  {[heap |-> <<a, b>>, root |-> Ref(1)] : a \in GenObjects \cup GenArrays, b \in GenSeconds}

\* formatter.test.ts: 'should handle nested objects'
NestedInput ==
  [heap |-> <<Obj(<<Entry(K_user, Ref(2)), Entry(K_auth, Ref(3))>>),
              Obj(<<Entry(K_name, Str("john")), Entry(K_password, Str("secret"))>>),
              Obj(<<Entry(K_token, Str("token123"))>>)>>,
   root |-> Ref(1)]

\* formatter.test.ts: 'should handle circular references'
CircularInput ==
  [heap |-> <<Obj(<<Entry(K_name, Str("john")), Entry(K_self, Ref(1))>>)>>,
   root |-> Ref(1)]

\* formatter.test.ts: 'should redact sensitive fields', 'should handle
\* arrays', 'should handle primitives'
TestInputs ==
  {NestedInput, CircularInput,
   [heap |-> <<Obj(<<Entry(K_username, Str("john")), Entry(K_password, Str("secret123")),
                     Entry(K_apiKey, Str("key123")), Entry(K_token, Str("token123"))>>)>>,
    root |-> Ref(1)],
   [heap |-> <<Arr(<<Ref(2), Ref(3)>>),
               Obj(<<Entry(K_name, Str("john")), Entry(K_password, Str("secret"))>>),
               Obj(<<Entry(K_name, Str("jane")), Entry(K_apiKey, Str("key123"))>>)>>,
    root |-> Ref(1)],
   [heap |-> <<>>, root |-> Str("string")]}

Inputs == GenInputs \cup TestInputs

\* ---- capSize and safeStringify
\* MAX_BODY_SIZE is 10 * 1024 in formatter.ts; scaled down so that the
\* serialization of {"name":"v"} (12 characters) is exactly at the limit
MAX_BODY_SIZE == 12

\* longest string body
MaxBodyLen == 14

\* the characters of the string values that occur in the arguments
Chars(s) ==
  CASE s = "v" -> <<"v">>
    [] s = "john" -> <<"j", "o", "h", "n">>
    [] s = "jane" -> <<"j", "a", "n", "e">>
    [] s = "secret" -> <<"s", "e", "c", "r", "e", "t">>
    [] s = "secret123" -> <<"s", "e", "c", "r", "e", "t", "1", "2", "3">>
    [] s = "key123" -> <<"k", "e", "y", "1", "2", "3">>
    [] s = "token123" -> <<"t", "o", "k", "e", "n", "1", "2", "3">>
    [] s = "string" -> <<"s", "t", "r", "i", "n", "g">>
    [] s = "[REDACTED]" -> <<"[", "R", "E", "D", "A", "C", "T", "E", "D", "]">>
    [] s = "[multipart/form-data]" -> <<"[", "m", "u", "l", "t", "i", "p", "a", "r", "t", "/", "f", "o", "r", "m", "-", "d", "a", "t", "a", "]">>
    [] s = "[binary data]" -> <<"[", "b", "i", "n", "a", "r", "y", " ", "d", "a", "t", "a", "]">>
    [] s = "[Circular Reference]" -> <<"[", "C", "i", "r", "c", "u", "l", "a", "r", " ", "R", "e", "f", "e", "r", "e", "n", "c", "e", "]">>
    [] OTHER -> <<>>

\* a body is a string, CapString(chars), or a structured value,
\* CapValue(in) with in = [heap, root] and root a reference
CapString(chars) == [t |-> "string", chars |-> chars]
CapValue(in) == [t |-> "value", in |-> in]

Quoted(chars) == <<"\"">> \o chars \o <<"\"">>

\* safeStringify(obj): JSON.stringify with the replacer of formatter.ts:122-
\* 152; a composite that is in seen is serialized as the string
\* "[Circular Reference]".  The result carries the text s and the seen set.
\* StringifyEnts serializes the entries (items) from index i on.
RECURSIVE Stringify(_, _, _)
RECURSIVE StringifyEnts(_, _, _, _, _, _)
StringifyEnts(heap, kind, ents, i, seen, acc) ==
  IF i > Len(ents)
    THEN [s |-> acc \o (IF kind = "arr" THEN <<"]">> ELSE <<"}">>), seen |-> seen]
    ELSE LET r == Stringify(heap, ents[i].v, seen)
             sep == IF i > 1 THEN <<",">> ELSE <<>>
             name == IF kind = "arr" THEN <<>> ELSE Quoted(ents[i].k) \o <<":">>
         IN StringifyEnts(heap, kind, ents, i + 1, r.seen, acc \o sep \o name \o r.s)

Stringify(heap, val, seen) ==
  IF val.t # "ref"
    THEN [s |-> Quoted(Chars(val.s)), seen |-> seen]
    ELSE IF val.id \in seen
      THEN [s |-> Quoted(Chars("[Circular Reference]")), seen |-> seen]
      ELSE StringifyEnts(heap, heap[val.id].kind, heap[val.id].ents, 1,
                         seen \cup {val.id},
                         IF heap[val.id].kind = "arr" THEN <<"[">> ELSE <<"{">>)

safeStringify(in) == Stringify(in.heap, in.root, {}).s

TRUNCATED == <<".", ".", ".", " ", "[", "t", "r", "u", "n", "c", "a", "t", "e", "d", "]">>

\* formatter.ts:93, 102: length > MAX_BODY_SIZE
\* (mutation: a body of exactly MAX_BODY_SIZE characters is cut as well)
ExceedsOrReaches(n) == n >= MAX_BODY_SIZE
Exceeds(n) == n > MAX_BODY_SIZE

\* body.substring(0, MAX_BODY_SIZE) + '... [truncated]'
Truncate(chars) == CapString(SubSeq(chars, 1, MAX_BODY_SIZE) \o TRUNCATED)

\* capSize(body)
capSize(body) ==
  IF body.t = "string"
    THEN IF body.chars = <<>>
           THEN body
           ELSE IF Exceeds(Len(body.chars)) THEN Truncate(body.chars) ELSE body
    ELSE LET stringified == safeStringify(body.in)
         IN IF Exceeds(Len(stringified)) THEN Truncate(stringified) ELSE body

\* the bodies capSize is called with: 'a'.repeat(n), and the structured
\* arguments of sanitize
CapInputs ==
  {CapString([i \in 1..n |-> "a"]) : n \in 0..MaxBodyLen}
    \cup {CapValue(in) : in \in {x \in Inputs : x.root.t = "ref"}}

\* ---- sanitizeHeaders
\* key.toLowerCase()
toLowerCase(chars) == [i \in 1..Len(chars) |-> Lower(chars[i])]

\* text.includes(word)
Includes(text, word) ==
  \E s \in 0..(Len(text) - Len(word)) : SubSeq(text, s + 1, s + Len(word)) = word

H_authorization == <<"a", "u", "t", "h", "o", "r", "i", "z", "a", "t", "i", "o", "n">>
H_cookie == <<"c", "o", "o", "k", "i", "e">>
H_x_api_key == <<"x", "-", "a", "p", "i", "-", "k", "e", "y">>
H_api_key == <<"a", "p", "i", "-", "k", "e", "y">>

\* formatter.ts:170-174, for the lower-cased name
\* (mutation: the exact name is api-key in place of x-api-key)
SensitiveHeaderApiKey(lowerKey) ==
  \/ lowerKey = H_authorization
  \/ lowerKey = H_cookie
  \/ lowerKey = H_api_key
  \/ Includes(lowerKey, K_token)
  \/ Includes(lowerKey, <<"s", "e", "c", "r", "e", "t">>)
SensitiveHeader(lowerKey) ==
  \/ lowerKey = H_authorization
  \/ lowerKey = H_cookie
  \/ lowerKey = H_x_api_key
  \/ Includes(lowerKey, K_token)
  \/ Includes(lowerKey, <<"s", "e", "c", "r", "e", "t">>)

\* sanitizeHeaders(headers): the headers are the entries of the mapping, in
\* Object.entries order
sanitizeHeaders(headers) ==
  [i \in 1..Len(headers) |->
     IF SensitiveHeader(toLowerCase(headers[i].k))
       THEN Entry(headers[i].k, "[REDACTED]")
       ELSE headers[i]]

\* most headers of a request or response
MaxHeaders == 2

HeaderNames ==
  {<<"a", "u", "t", "h", "o", "r", "i", "z", "a", "t", "i", "o", "n">>,
   <<"A", "u", "t", "h", "o", "r", "i", "z", "a", "t", "i", "o", "n">>,
   <<"c", "o", "o", "k", "i", "e">>,
   <<"x", "-", "a", "p", "i", "-", "k", "e", "y">>,
   <<"a", "p", "i", "-", "k", "e", "y">>,
   <<"c", "o", "n", "t", "e", "n", "t", "-", "t", "y", "p", "e">>,
   <<"x", "-", "a", "u", "t", "h", "-", "t", "o", "k", "e", "n">>,
   <<"X", "-", "C", "l", "i", "e", "n", "t", "-", "S", "e", "c", "r", "e", "t">>,
   <<"a", "c", "c", "e", "p", "t">>}

\* mappings of up to MaxHeaders distinct names
HeaderInputs ==
  UNION {{[i \in 1..n |-> Entry(f[i], "v")] :
            f \in {g \in [1..n -> HeaderNames] : \A i, j \in 1..n : g[i] = g[j] => i = j}} :
         n \in 0..MaxHeaders}

\* ---- sendBatch: the request of a transmission (sender.ts:128-184)
\* latest Date.now() value
MaxClock == 2

\* Math.random().toString(36).substr(2, 9)
Randoms == {"r1", "r2"}

\* the LogEvents: requestId ("" when the event carries none), the captured
\* request body (the empty string when there is none) and the response
\* status code (0 when there is no response)
FlatBody ==
  CapValue([heap |-> <<Obj(<<Entry(K_name, Str("v"))>>)>>, root |-> Ref(1)])
LogEvents ==
  [requestId : {"", "req_1", "req_2"},
   body : {CapString(<<>>), CapString(<<"a">>), FlatBody},
   response : {0, 200, 500}]

\* log.requestId || `trace_${Date.now()}_${Math.random()...}`
\* (mutation: the identifier is generated for every event)
TraceIdGenerated(log, t, rnd) == <<"trace", t, rnd>>
TraceId(log, t, rnd) ==
  IF log.requestId # "" THEN log.requestId ELSE <<"trace", t, rnd>>

\* log.request.body ? JSON.stringify(log.request.body) : null; the captured
\* bodies are strings or trees, which JSON.stringify writes as safeStringify
\* does
JsonBody(body) ==
  IF body.t = "string"
    THEN IF body.chars = <<>> THEN [t |-> "null"] ELSE CapString(Quoted(body.chars))
    ELSE CapString(safeStringify(body.in))

\* the TransformedLogEvent of sender.ts:138-154 made at time t with the
\* random string rnd
transform(log, t, rnd) ==
  [trace_id |-> TraceId(log, t, rnd),
   request |-> [body |-> JsonBody(log.body)],
   response |-> [status |-> log.response]]

\* the arguments of axios.post (sender.ts:173-184)
PostHeaders(cfg) ==
  ("Content-Type" :> <<"application/json">>)
    @@ ("Authorization" :> <<"Bearer ", cfg.apiKey>>)
    @@ ("User-Agent" :> <<"logsentinel-express/1.0.0">>)
Post(cfg, log, t, rnd) ==
  [url |-> <<cfg.baseUrl, "/api/sdk/logs">>,
   data |-> transform(log, t, rnd),
   headers |-> PostHeaders(cfg),
   timeout |-> 10000]

\* ---- the capture middleware (middleware/logsentinelMiddleware.ts)
Undefined == [t |-> "undefined"]

\* the value sanitize returned, as a value of its own: every composite of
\* the returned tree is a fresh object
RECURSIVE Heapify(_, _)
RECURSIVE HeapifyEnts(_, _, _, _)
HeapifyEnts(ents, i, heap, acc) ==
  IF i > Len(ents)
    THEN [heap |-> heap, ents |-> acc]
    ELSE LET r == Heapify(ents[i].v, heap)
         IN HeapifyEnts(ents, i + 1, r.heap, Append(acc, Entry(ents[i].k, r.val)))
Heapify(out, heap) ==
  IF out.t = "str"
    THEN [heap |-> heap, val |-> out]
    ELSE LET id == Len(heap) + 1
             r == HeapifyEnts(out.ents, 1, Append(heap, Obj(<<>>)), <<>>)
         IN [heap |-> [r.heap EXCEPT ![id] = [kind |-> out.t, ents |-> r.ents]],
             val |-> Ref(id)]
ValueOf(out) ==
  LET r == Heapify(out, <<>>) IN CapValue([heap |-> r.heap, root |-> r.val])

\* contentType.includes('multipart/form-data'), and the binary types of
\* isBinaryContent, for the content types of the requests and responses
isMultipartForm(contentType) == contentType = "multipart/form-data"
isBinaryContent(contentType) == contentType \in {"image/png", "application/pdf"}

\* the request bodies: none, or {password: 'v'}
NoBody == [heap |-> <<>>, root |-> Str("")]
PasswordBody == [heap |-> <<Obj(<<Entry(K_password, Str("v"))>>)>>, root |-> Ref(1)]

\* the requests and what the host answers
Requests ==
  [headers : {<<Entry(H_authorization, "v")>>},
   contentType : {"application/json", "multipart/form-data"},
   body : {NoBody, PasswordBody}]
Responses ==
  [statusCode : {200, 500},
   contentType : {"application/json", "image/png"},
   body : {CapString(<<>>), CapString(<<"a">>), CapValue(PasswordBody)}]
Errors == {"boom"}

\* requestLog.body (part_001:47-57) under the patterns' lastIndex li
RequestBody(req, li) ==
  IF req.body = NoBody
    THEN Undefined
    ELSE IF isMultipartForm(req.contentType)
      THEN CapString(Chars("[multipart/form-data]"))
      ELSE IF isBinaryContent(req.contentType)
        THEN CapString(Chars("[binary data]"))
        ELSE capSize(ValueOf(sanitize(req.body, li).out))

\* responseLog.body (part_001:87-108) under the patterns' lastIndex li
ResponseBody(res, li) ==
  IF isBinaryContent(res.contentType)
    THEN CapString(Chars("[binary data]"))
    ELSE IF isMultipartForm(res.contentType)
      THEN CapString(Chars("[multipart/form-data]"))
      ELSE IF res.body = CapString(<<>>)
        THEN Undefined
        ELSE IF res.body.t = "string"
          THEN capSize(res.body)
          ELSE capSize(ValueOf(sanitize(res.body.in, li).out))

\* what express's res.json hands on to res.send: JSON.stringify(body); a
\* missing body stays missing
JsonOf(body) ==
  IF body = CapString(<<>>)
    THEN body
    ELSE IF body.t = "value"
      THEN CapString(safeStringify(body.in))
      ELSE CapString(Quoted(body.chars))

\* The bodies that reach captureResponse, in order, when the host calls a
\* patched method with body: each patched method captures and then calls the
\* original (part_001:114-129), and in express the original json calls
\* this.send with the serialized body, the original send calls this.json for
\* an object and this.end for a string, so the patched methods nest.
Methods == {"send", "json", "end"}
CapturedBodies(method, body) ==
  CASE method = "end" -> <<body>>
    [] method = "json" -> <<body, JsonOf(body), JsonOf(body)>>
    [] method = "send" -> IF body.t = "value"
                            THEN <<body, body, JsonOf(body), JsonOf(body)>>
                            ELSE <<body, body>>

\* no request has come in yet
NoRequest ==
  [phase |-> "none", requestLog |-> Undefined, responseCaptured |-> FALSE,
   responseLog |-> Undefined, errorLog |-> Undefined, locals |-> Undefined,
   statusCode |-> 200, logEvent |-> Undefined, push |-> "none",
   captureCalls |-> 0]

\* --------------------------------------------------------------------- Init
EnvValues ==
  {[apiKey |-> "", baseUrl |-> "", debug |-> ""],
   [apiKey |-> "key", baseUrl |-> "url", debug |-> ""]}

\* what the host may set process.env.LOGSENTINEL_API_KEY, _BASE_URL and
\* _DEBUG to while the process runs (middleware.test.ts:274-276, 320-321)
HostEnvs == [apiKey : {"", "env-key"}, baseUrl : {"", "env-url"}, debug : {"", "true"}]

Init ==
  /\ queue = <<>>
  /\ isFlushing = FALSE
  /\ isShuttingDown = FALSE
  /\ flushTimer = TRUE
  /\ env \in EnvValues
  /\ config = loadConfig(NoExplicit, env)
  /\ tasks = [t \in TaskIds |-> Idle]
  /\ pushed = 0
  /\ signals = 0
  /\ batches = <<>>
  /\ shutdownComplete = 0
  /\ onlyHostCalls = TRUE
  /\ tickedAfterSignal = FALSE
  /\ uncaught = FALSE
  /\ lastOp = "init"
  /\ lastIndex = [p \in PatternIds |-> 0]
  /\ sanIn = [heap |-> <<>>, root |-> Str("")]
  /\ sanOut = Str("")
  /\ sanExpanded = <<>>
  /\ capIn = CapString(<<>>)
  /\ capOut = CapString(<<>>)
  /\ hdrIn = <<>>
  /\ hdrOut = <<>>
  /\ trEvent = [requestId |-> "", body |-> CapString(<<>>), response |-> 0]
  /\ trPosts = <<>>
  /\ trNow = 0
  /\ mwReq = NoRequest
  /\ mwCrash = FALSE

\* the queue once its snapshot has been taken: this.queue = []
EmptiedKept(q) == q
Emptied(q) == <<>>

\* ----------------------------------------------------------- LogQueue.flush
\* flush() applied to the queue q.  inHostCode: the caller is push, so host
\* code may still run before the promise reactions of a call that returned
\* without awaiting; from the timer callback the reactions follow at once.
\* if (this.isFlushing || this.queue.length === 0) return
FlushBlockedNoMutex(q) == Len(q) = 0
FlushBlocked(q) == isFlushing \/ Len(q) = 0

flush(q, inHostCode) ==
  IF FlushBlocked(q)
    THEN /\ queue' = q
         /\ UNCHANGED <<isFlushing, tasks, batches>>
    ELSE LET r == sendBatch(q, 1, isConfigValid)
         IN /\ queue' = Emptied(q)
            /\ batches' = Append(batches, q)
            /\ IF r.phase = "returned"
                 THEN IF inHostCode
                        THEN /\ isFlushing' = TRUE
                             /\ tasks' = [tasks EXCEPT ![FlushTask] = [r EXCEPT !.phase = "settling"]]
                        ELSE /\ isFlushing' = FALSE
                             /\ tasks' = tasks
                 ELSE /\ isFlushing' = TRUE
                      /\ tasks' = [tasks EXCEPT ![FlushTask] = r]

\* ------------------------------------------------------------ LogQueue.push
\* push returns at once, dropping the event, while the queue shuts down
DiscardingNever == FALSE
Discarding == isShuttingDown

\* the queue after the eviction and the append of push
AdmitNoEvict(q, e) == Append(q, e)
AdmitDropNewest(q, e) == IF Len(q) >= MAX_QUEUE_SIZE THEN q ELSE Append(q, e)
AdmitUnshift(q, e) == <<e>> \o (IF Len(q) >= MAX_QUEUE_SIZE THEN Tail(q) ELSE q)
AdmitEvictTail(q, e) ==
  Append(IF Len(q) >= MAX_QUEUE_SIZE THEN SubSeq(q, 1, Len(q) - 1) ELSE q, e)
Admit(q, e) == Append(IF Len(q) >= MAX_QUEUE_SIZE THEN Tail(q) ELSE q, e)

\* if (this.queue.length >= BATCH_SIZE)
ReachedBatchStrict(q) == Len(q) > BATCH_SIZE
ReachedBatch(q) == Len(q) >= BATCH_SIZE

\* logQueue.push(event), whoever calls it
push ==
  /\ pushed < MaxPush
  /\ pushed' = pushed + 1
  /\ lastOp' = "push"
  /\ IF Discarding
       THEN UNCHANGED <<queue, isFlushing, tasks, batches>>
       ELSE LET q == Admit(queue, pushed + 1)
            IN IF ReachedBatch(q)
                 THEN flush(q, TRUE)
                 ELSE /\ queue' = q
                      /\ UNCHANGED <<isFlushing, tasks, batches>>
  /\ UNCHANGED <<isShuttingDown, flushTimer, config, env, signals,
                 shutdownComplete, onlyHostCalls, tickedAfterSignal, uncaught>>

\* a push by the host
Push ==
  /\ UNCHANGED ovars
  /\ push

\* --------------------------------------------- LogQueue.startFlushTimer tick
Tick ==
  /\ UNCHANGED ovars
  /\ flushTimer
  /\ ~MicrotaskPending
  /\ tickedAfterSignal' = (tickedAfterSignal \/ signals > 0)
  /\ lastOp' = "tick"
  /\ onlyHostCalls' = FALSE
  /\ IF Len(queue) > 0
       THEN flush(queue, FALSE)
       ELSE UNCHANGED <<queue, isFlushing, tasks, batches>>
  /\ UNCHANGED <<isShuttingDown, flushTimer, config, env, pushed, signals,
                 shutdownComplete, uncaught>>

\* ------------------------------------------------ end of a sendBatch chain
\* The chain of task t settles (delivered, skipped or exhausted): flush()'s finally
\* clears isFlushing, shutdown() falls through to 'shutdown complete'.
FinishKeepsFlag(t) ==
  /\ tasks' = [tasks EXCEPT ![t] = Idle]
  /\ isFlushing' = isFlushing
  /\ shutdownComplete' = (IF t = FlushTask THEN shutdownComplete ELSE shutdownComplete + 1)

Finish(t) ==
  /\ tasks' = [tasks EXCEPT ![t] = Idle]
  /\ IF t = FlushTask
       THEN isFlushing' = FALSE /\ shutdownComplete' = shutdownComplete
       ELSE isFlushing' = isFlushing /\ shutdownComplete' = shutdownComplete + 1

\* promise reactions of a flush whose sendBatch returned without awaiting
Settle ==
  /\ UNCHANGED ovars
  /\ tasks[FlushTask].phase = "settling"
  /\ onlyHostCalls' = FALSE
  /\ Finish(FlushTask)
  /\ UNCHANGED <<queue, isShuttingDown, flushTimer, config, env, pushed,
                 signals, batches, tickedAfterSignal>>
  /\ lastOp' = "settle"
  /\ uncaught' = uncaught

\* ------------------------------------- LogQueue.sendBatch: answer to a post
\* what the remote end does with one request: a 2xx status, any other status,
\* or no answer at all (network error, 10 s timeout)
Answers == {"2xx", "non2xx", "error"}

\* axios.post is called without validateStatus, so its promise resolves for a
\* 2xx status and rejects for every other answer
ResolvesAnyStatus(answer) == answer # "error"
Resolves(answer) == answer = "2xx"

\* if (attempt < MAX_RETRIES)
MayRetryOnceMore(attempt) == attempt <= MAX_RETRIES
MayRetry(attempt) == attempt < MAX_RETRIES

\* the rejection of a sendBatch chain meets a handler: flush() chains .catch,
\* shutdown() awaits inside try/catch
CaughtInFlushOnly(t) == t = FlushTask
Caught(t) == TRUE

Respond(t, answer) ==
  /\ UNCHANGED ovars
  /\ tasks[t].phase = "post"
  /\ ~MicrotaskPending
  /\ onlyHostCalls' = FALSE
  /\ LET f == tasks[t]
     IN IF Resolves(answer)
          THEN /\ uncaught' = uncaught
               /\ IF f.idx < Len(f.logs)
                    THEN /\ tasks' = [tasks EXCEPT ![t] = [f EXCEPT !.idx = f.idx + 1]]
                         /\ UNCHANGED <<isFlushing, shutdownComplete>>
                    ELSE Finish(t)
          ELSE IF MayRetry(f.attempt)
                 THEN /\ tasks' = [tasks EXCEPT ![t] = [f EXCEPT !.phase = "delay",
                                                                 !.wait = RetryDelay(f.attempt)]]
                      /\ UNCHANGED <<isFlushing, shutdownComplete, uncaught>>
                 ELSE /\ Finish(t)
                      /\ uncaught' = (uncaught \/ ~Caught(t))
  /\ UNCHANGED <<queue, isShuttingDown, flushTimer, config, env, pushed,
                 signals, batches, tickedAfterSignal>>
  /\ lastOp' = answer

\* ------------------------- LogQueue.sendBatch: the retry delay has elapsed
\* (mutation: the retry resumes at the event that failed)
DelayExpireResume(t) ==
  /\ UNCHANGED ovars
  /\ tasks[t].phase = "delay"
  /\ ~MicrotaskPending
  /\ onlyHostCalls' = FALSE
  /\ LET f == tasks[t]
         r == sendBatch(f.logs, f.attempt + 1, isConfigValid)
     IN IF r.phase = "returned"
          THEN Finish(t)
          ELSE /\ tasks' = [tasks EXCEPT ![t] = [r EXCEPT !.idx = f.idx]]
               /\ UNCHANGED <<isFlushing, shutdownComplete>>
  /\ UNCHANGED <<queue, isShuttingDown, flushTimer, config, env, pushed,
                 signals, batches, tickedAfterSignal>>
  /\ lastOp' = "delay"
  /\ uncaught' = uncaught

\* (mutation: the retry does not look at the configuration again)
DelayExpireNoRecheck(t) ==
  /\ UNCHANGED ovars
  /\ tasks[t].phase = "delay"
  /\ ~MicrotaskPending
  /\ onlyHostCalls' = FALSE
  /\ tasks' = [tasks EXCEPT ![t] = sendBatch(tasks[t].logs, tasks[t].attempt + 1, TRUE)]
  /\ UNCHANGED <<queue, isFlushing, isShuttingDown, flushTimer, config, env,
                 pushed, signals, batches, shutdownComplete, tickedAfterSignal>>
  /\ lastOp' = "delay"
  /\ uncaught' = uncaught

DelayExpire(t) ==
  /\ UNCHANGED ovars
  /\ tasks[t].phase = "delay"
  /\ ~MicrotaskPending
  /\ onlyHostCalls' = FALSE
  /\ LET f == tasks[t]
         r == sendBatch(f.logs, f.attempt + 1, isConfigValid)
     IN IF r.phase = "returned"
          THEN Finish(t)
          ELSE /\ tasks' = [tasks EXCEPT ![t] = r]
               /\ UNCHANGED <<isFlushing, shutdownComplete>>
  /\ UNCHANGED <<queue, isShuttingDown, flushTimer, config, env, pushed,
                 signals, batches, tickedAfterSignal>>
  /\ lastOp' = "delay"
  /\ uncaught' = uncaught

\* ------------------------------- LogQueue.setupGracefulShutdown: shutdown()
\* clearInterval(this.flushTimer); this.flushTimer = null
clearIntervalMissing(timer) == timer
clearInterval(timer) == FALSE

Signal ==
  /\ UNCHANGED ovars
  /\ signals < MaxSignals
  /\ ~MicrotaskPending
  /\ signals' = signals + 1
  /\ lastOp' = "signal"
  /\ onlyHostCalls' = FALSE
  /\ isShuttingDown' = TRUE
  /\ flushTimer' = clearInterval(flushTimer)
  /\ IF Len(queue) > 0
       THEN LET r == sendBatch(queue, 1, isConfigValid)
            IN /\ queue' = Emptied(queue)
               /\ batches' = Append(batches, queue)
               /\ IF r.phase = "returned"
                    THEN /\ tasks' = tasks
                         /\ shutdownComplete' = shutdownComplete + 1
                    ELSE /\ tasks' = [tasks EXCEPT ![signals + 1] = r]
                         /\ shutdownComplete' = shutdownComplete
       ELSE /\ shutdownComplete' = shutdownComplete + 1
            /\ UNCHANGED <<queue, tasks, batches>>
  /\ UNCHANGED <<isFlushing, config, env, pushed, tickedAfterSignal, uncaught>>

\* ------------------------------------------------ ConfigManager.updateConfig
UpdateConfig(explicitConfig) ==
  /\ UNCHANGED ovars
  /\ config' = loadConfig(explicitConfig, env)
  /\ lastOp' = "config"
  /\ UNCHANGED <<queue, isFlushing, isShuttingDown, flushTimer, env, tasks,
                 pushed, signals, batches, shutdownComplete, onlyHostCalls,
                 tickedAfterSignal, uncaught>>

Next ==
  \/ Push
  \/ Tick
  \/ Settle
  \/ \E t \in TaskIds, answer \in Answers : Respond(t, answer)
  \/ \E t \in TaskIds : DelayExpire(t)
  \/ Signal
  \/ \E c \in HostConfigs : UpdateConfig(c)

Spec == Init /\ [][Next]_vars

\* Every request is answered (at the latest by its 10 s timeout), every retry
\* timer fires and pending promise reactions run: the event loop's guarantees.
Fairness ==
  /\ WF_vars(Settle)
  /\ \A t \in TaskIds : WF_vars(\E answer \in Answers : Respond(t, answer))
  /\ \A t \in TaskIds : WF_vars(DelayExpire(t))

\* the host stops pushing after MaxLivePush calls
PushLive == pushed < MaxLivePush /\ Push

NextLive ==
  \/ PushLive
  \/ Tick
  \/ Settle
  \/ \E t \in TaskIds, answer \in Answers : Respond(t, answer)
  \/ \E t \in TaskIds : DelayExpire(t)
  \/ Signal
  \/ \E c \in HostConfigs : UpdateConfig(c)

FairSpec == Init /\ [][NextLive]_vars /\ Fairness

\* The queue while no termination signal arrives: setInterval keeps calling
\* the timer callback every FLUSH_INTERVAL as long as the process runs
TimerFairness == WF_vars(Tick)

NextRunning ==
  \/ Push
  \/ Tick
  \/ Settle
  \/ \E t \in TaskIds, answer \in Answers : Respond(t, answer)
  \/ \E t \in TaskIds : DelayExpire(t)
  \/ \E c \in HostConfigs : UpdateConfig(c)

RunningSpec == Init /\ [][NextRunning]_vars /\ Fairness /\ TimerFairness

\* The queue against a remote end that never answers 2xx
NextAllFail ==
  \/ Push
  \/ Tick
  \/ Settle
  \/ \E t \in TaskIds, answer \in Answers \ {"2xx"} : Respond(t, answer)
  \/ \E t \in TaskIds : DelayExpire(t)
  \/ Signal
  \/ \E c \in HostConfigs : UpdateConfig(c)

AllFailSpec == Init /\ [][NextAllFail]_vars

\* The queue against a remote end that fails the first transmission of every
\* batch and answers 2xx to every later one (part_002:79-85)
FirstOfBatch(f) == f.attempt = 1 /\ f.idx = 1

NextFirstFails ==
  \/ Push
  \/ Tick
  \/ Settle
  \/ \E t \in TaskIds, answer \in Answers :
       /\ (answer = "2xx") = ~FirstOfBatch(tasks[t])
       /\ Respond(t, answer)
  \/ \E t \in TaskIds : DelayExpire(t)
  \/ Signal
  \/ \E c \in HostConfigs : UpdateConfig(c)

FirstFailsSpec == Init /\ [][NextFirstFails]_vars

\* ------------------------------------------------- calls of sanitize(obj)
\* formatter.ts:27-38: primitives are returned as they are, composites go
\* through recursiveSanitize with a fresh seen set; the patterns are module
\* constants, so their lastIndex outlives the call.
CallSanitize(in) ==
  /\ sanIn' = in
  /\ LET r == sanitize(in, lastIndex)
     IN /\ sanOut' = r.out
        /\ sanExpanded' = r.exp
        /\ lastIndex' = r.li

Sanitize(in) ==
  /\ CallSanitize(in)
  /\ UNCHANGED <<qvars, wvars, mvars, capIn, capOut, hdrIn, hdrOut>>

NextSanitize == \E in \in Inputs : Sanitize(in)

SanitizeSpec == Init /\ [][NextSanitize]_vars

\* --------------------------------------------------- calls of capSize(body)
CallCapSize(body) ==
  /\ capIn' = body
  /\ capOut' = capSize(body)

CapSize(body) ==
  /\ CallCapSize(body)
  /\ UNCHANGED <<qvars, wvars, mvars, lastIndex, sanIn, sanOut, sanExpanded, hdrIn, hdrOut>>

NextCapSize == \E body \in CapInputs : CapSize(body)

CapSizeSpec == Init /\ [][NextCapSize]_vars

\* ---------------------------------------- calls of sanitizeHeaders(headers)
CallSanitizeHeaders(headers) ==
  /\ hdrIn' = headers
  /\ hdrOut' = sanitizeHeaders(headers)

SanitizeHeaders(headers) ==
  /\ CallSanitizeHeaders(headers)
  /\ UNCHANGED <<qvars, wvars, mvars, lastIndex, sanIn, sanOut, sanExpanded, capIn, capOut>>

NextHeaders == \E headers \in HeaderInputs : SanitizeHeaders(headers)

HeadersSpec == Init /\ [][NextHeaders]_vars

\* -------------------------------------------- ConfigManager and process.env
\* the host assigns the environment variables; the configuration reads them
\* at the next loadConfig only
SetEnv(e) ==
  /\ env' = e
  /\ lastOp' = "env"
  /\ UNCHANGED <<queue, isFlushing, isShuttingDown, flushTimer, config, tasks,
                 pushed, signals, batches, shutdownComplete, onlyHostCalls,
                 tickedAfterSignal, uncaught>>
  /\ UNCHANGED ovars

NextConfig ==
  \/ \E explicitConfig \in ExplicitConfigs : UpdateConfig(explicitConfig)
  \/ \E e \in HostEnvs : SetEnv(e)

ConfigSpec == Init /\ [][NextConfig]_vars

\* ------------------------------ the requests sendBatch makes for one event
\* sendBatch([log]) under a valid configuration: attempt 1 transforms the
\* event and posts it
SendAttempt(log, t, rnd) ==
  /\ isConfigValid
  /\ trEvent' = log
  /\ trPosts' = <<Post(config, log, t, rnd)>>
  /\ trNow' = t
  /\ UNCHANGED <<qvars, svars, mvars>>

\* the post failed: sendBatch(logs, attempt + 1) transforms the same event
\* again, at a later time, and posts it
SendRetry(t, rnd) ==
  /\ isConfigValid
  /\ trPosts # <<>>
  /\ MayRetry(Len(trPosts))
  /\ t >= trNow
  /\ trPosts' = Append(trPosts, Post(config, trEvent, t, rnd))
  /\ trNow' = t
  /\ UNCHANGED <<qvars, svars, mvars, trEvent>>

NextWire ==
  \/ \E log \in LogEvents, t \in 0..MaxClock, rnd \in Randoms : SendAttempt(log, t, rnd)
  \/ \E t \in 0..MaxClock, rnd \in Randoms : SendRetry(t, rnd)

WireSpec == Init /\ [][NextWire]_vars

\* ------------------------------------------------- the capture middleware
\* One request is in the middleware at a time: mwReq is its closure
\* (requestLog, responseCaptured, responseLog, errorLog), res.locals, the
\* response status, and, once 'finish' has fired, the LogEvent that was
\* built and what logQueue.push did with it.

\* logsentinelMiddleware: (req, res, next) => ... next()  (part_001:26-166)
MwRequest(req) ==
  /\ mwReq.phase # "open"
  /\ ~MicrotaskPending
  /\ CallSanitizeHeaders(req.headers)
  /\ IF req.body # NoBody /\ ~isMultipartForm(req.contentType)
          /\ ~isBinaryContent(req.contentType)
       THEN /\ CallSanitize(req.body)
            /\ CallCapSize(ValueOf(sanitize(req.body, lastIndex).out))
       ELSE UNCHANGED <<lastIndex, sanIn, sanOut, sanExpanded, capIn, capOut>>
  /\ mwReq' = [NoRequest EXCEPT
                 !.phase = "open",
                 !.requestLog = [headers |-> sanitizeHeaders(req.headers),
                                 body |-> RequestBody(req, lastIndex)]]
  /\ UNCHANGED <<qvars, wvars, mwCrash>>

\* logsentinelErrorMiddleware: (err, req, res, next) => ... next(err)
\* (part_001:175-189); res.statusCode || 500
MwError(err) ==
  /\ mwReq.phase = "open"
  /\ ~mwReq.responseCaptured
  /\ mwReq.locals = Undefined
  /\ ~MicrotaskPending
  /\ mwReq' = [mwReq EXCEPT !.locals = [message |-> err, stack |-> <<err, "stack">>,
                                        statusCode |-> mwReq.statusCode]]
  /\ UNCHANGED <<qvars, svars, wvars, mwCrash>>

\* captureResponse(body) (part_001:74-111) in the closure m, for the response
\* res of the host carrying body, under the patterns' lastIndex li
\* (mutation: the responseCaptured flag is not looked at)
captureResponseAgain(m, res, li) ==
  [m EXCEPT
     !.captureCalls = m.captureCalls + 1,
     !.responseCaptured = TRUE,
     !.responseLog = [statusCode |-> m.statusCode,
                      headers |-> sanitizeHeaders(res.headers),
                      contentType |-> res.contentType,
                      body |-> ResponseBody(res, li)]]

captureResponse(m, res, li) ==
  IF m.responseCaptured
    THEN [m EXCEPT !.captureCalls = m.captureCalls + 1]
    ELSE [m EXCEPT
            !.captureCalls = m.captureCalls + 1,
            !.responseCaptured = TRUE,
            !.responseLog = [statusCode |-> m.statusCode,
                             headers |-> sanitizeHeaders(res.headers),
                             contentType |-> res.contentType,
                             body |-> ResponseBody(res, li)]]

\* the closure after captureResponse has been called with bodies[i], ...
RECURSIVE CaptureAll(_, _, _, _, _)
CaptureAll(m, res, bodies, i, li) ==
  IF i > Len(bodies)
    THEN m
    ELSE CaptureAll(captureResponse(m, [res EXCEPT !.body = bodies[i]], li),
                    res, bodies, i + 1, li)

\* the host answers: res.status(code) and one of the patched res.send /
\* res.json / res.end (part_001:114-129) with the calls nested in it; the
\* first call of captureResponse sanitizes the headers and the body
Patched(method, res) ==
  /\ mwReq.phase = "open"
  /\ ~mwReq.responseCaptured
  /\ ~MicrotaskPending
  /\ LET headers == <<Entry(<<"c", "o", "n", "t", "e", "n", "t", "-", "t", "y", "p", "e">>,
                            res.contentType)>>
         sanitized == /\ ~isBinaryContent(res.contentType)
                      /\ ~isMultipartForm(res.contentType)
                      /\ res.body.t = "value"
         capped == /\ ~isBinaryContent(res.contentType)
                   /\ ~isMultipartForm(res.contentType)
                   /\ res.body # CapString(<<>>)
     IN /\ CallSanitizeHeaders(headers)
        /\ IF sanitized
             THEN CallSanitize(res.body.in)
             ELSE UNCHANGED <<lastIndex, sanIn, sanOut, sanExpanded>>
        /\ IF capped
             THEN CallCapSize(IF sanitized
                                THEN ValueOf(sanitize(res.body.in, lastIndex).out)
                                ELSE res.body)
             ELSE UNCHANGED <<capIn, capOut>>
        /\ mwReq' = CaptureAll([mwReq EXCEPT !.statusCode = res.statusCode],
                               [statusCode |-> res.statusCode, headers |-> headers,
                                contentType |-> res.contentType, body |-> res.body],
                               CapturedBodies(method, res.body), 1, lastIndex)
  /\ UNCHANGED <<qvars, wvars, mwCrash>>

ResSend(res) == Patched("send", res)
ResJson(res) == Patched("json", res)
ResEnd(res) == Patched("end", res)

\* try { logQueue.push(logEvent) } catch (error) { logger.warn(...) }
\* (mutation: the call is not wrapped)
SwallowedNever == FALSE
Swallowed == TRUE

\* res.on('finish', ...) (part_001:132-162): the LogEvent is built and
\* pushed; throws says whether logQueue.push throws (it is a mock that does
\* in middleware.test.ts:236-238)
ResFinish(throws) ==
  /\ mwReq.phase = "open"
  /\ mwReq.responseCaptured
  /\ ~MicrotaskPending
  /\ mwReq' = [mwReq EXCEPT
                 !.phase = "finished",
                 !.logEvent = [request |-> mwReq.requestLog,
                               response |-> mwReq.responseLog,
                               error |-> mwReq.errorLog],
                 !.push = IF throws THEN "threw" ELSE "pushed"]
  /\ mwCrash' = (mwCrash \/ (throws /\ ~Swallowed))
  /\ IF throws THEN UNCHANGED qvars ELSE push
  /\ UNCHANGED <<svars, wvars>>

NextMiddleware ==
  \/ \E req \in Requests : MwRequest(req)
  \/ \E err \in Errors : MwError(err)
  \/ \E res \in Responses : ResSend(res)
  \/ \E res \in Responses : ResJson(res)
  \/ \E res \in Responses : ResEnd(res)
  \/ \E throws \in BOOLEAN : ResFinish(throws)
  \/ Settle

MiddlewareSpec == Init /\ [][NextMiddleware]_vars

\* ------------------------------------------------------- shared vocabulary
Range(s) == {s[i] : i \in 1..Len(s)}
Min(a, b) == IF a <= b THEN a ELSE b
\* the events m+1 .. n, oldest first
Events(m, n) == [i \in 1..(n - m) |-> m + i]
\* every event that was ever put into a snapshot
Dispatched == UNION {Range(batches[i]) : i \in 1..Len(batches)}
LastBatch == batches[Len(batches)]
PushStep == pushed' = pushed + 1
\* task t puts a request on the wire in this step
Transmits(t) ==
  /\ tasks'[t].phase = "post"
  /\ \/ tasks[t].phase # "post"
     \/ tasks'[t].idx # tasks[t].idx
     \/ tasks'[t].attempt # tasks[t].attempt

TypeOK ==
  /\ queue \in Seq(1..MaxPush)
  /\ isFlushing \in BOOLEAN
  /\ isShuttingDown \in BOOLEAN
  /\ flushTimer \in BOOLEAN
  /\ pushed \in 0..MaxPush
  /\ signals \in 0..MaxSignals
  /\ shutdownComplete \in 0..MaxSignals
  /\ \A t \in TaskIds : tasks[t].phase \in {"none", "settling", "post", "delay"}

\* ------------------------------------------------------------------ claims

\* C1: at most one dispatch sequence (a sendBatch call chain with its
\* retries) is in flight at any time.
C1_OneDispatchInFlight == Cardinality({t \in TaskIds : InFlight(t)}) <= 1

\* C2: batches are never interleaved on the wire: no task transmits while the
\* batch of another task is between its first transmission and its end.
C2_NoInterleaving ==
  [][\A t, u \in TaskIds : (t # u /\ Transmits(t)) => ~OnWire(u)]_vars

\* C3: in every reachable state the queue length is at most the capacity.
C3_QueueBounded == Len(queue) <= MAX_QUEUE_SIZE

\* C3 witness: the queue is full while a flush is in flight and an event has
\* already been evicted from it.
C3_Witness ==
  /\ Len(queue) = MAX_QUEUE_SIZE
  /\ isFlushing
  /\ OnWire(FlushTask)
  /\ queue[1] - 1 \notin Dispatched

\* C4 as stated: after N > capacity pushes from the empty idle queue, with no
\* tick and no completion in between, the queue holds exactly the capacity,
\* the most recent events in push order.
C4_Original ==
  (onlyHostCalls /\ pushed > MAX_QUEUE_SIZE)
    => queue = Events(pushed - MAX_QUEUE_SIZE, pushed)

\* C4 amended: after N > capacity such pushes the queue holds the most recent
\* min(N - batch threshold, capacity) events in push order (the first
\* threshold-many events left with the size-triggered flush), hence exactly
\* the capacity once N >= capacity + threshold.
C4_BoundedMemory ==
  (onlyHostCalls /\ pushed > MAX_QUEUE_SIZE)
    => /\ queue = Events(pushed - Min(pushed - BATCH_SIZE, MAX_QUEUE_SIZE), pushed)
       /\ (pushed >= MAX_QUEUE_SIZE + BATCH_SIZE => Len(queue) = MAX_QUEUE_SIZE)

\* C4 witness: only pushes so far, more than capacity + threshold of them
C4_Witness ==
  /\ onlyHostCalls
  /\ pushed > MAX_QUEUE_SIZE + BATCH_SIZE
  /\ Len(queue) = MAX_QUEUE_SIZE

\* C5: a push onto a full queue of a queue that is not shutting down removes
\* exactly the head, appends the new event at the tail and keeps the order of
\* the others; the new event ends in the queue or in the snapshot that this
\* push took.
C5_DropOldest ==
  [][(PushStep /\ ~isShuttingDown /\ Len(queue) >= MAX_QUEUE_SIZE)
       => LET kept == Append(Tail(queue), pushed + 1)
          IN IF batches' # batches
               THEN batches' = Append(batches, kept) /\ queue' = <<>>
               ELSE queue' = kept]_vars

\* C5 witness: the last push found the queue full with no flush in flight:
\* it evicted the head (which is in no snapshot) and its flush took the rest.
C5_Witness ==
  /\ ~isShuttingDown
  /\ pushed > MAX_QUEUE_SIZE
  /\ batches # <<>>
  /\ LastBatch = Events(pushed - MAX_QUEUE_SIZE, pushed)
  /\ (pushed - MAX_QUEUE_SIZE) \notin Dispatched
  /\ queue = <<>>

\* C6: once a signal has set isShuttingDown it is never cleared, and every
\* later push leaves the queue, the flags and the in-flight batches unchanged.
C6_NoAdmissionAfterShutdown ==
  [][/\ isShuttingDown => isShuttingDown'
     /\ (isShuttingDown /\ PushStep)
          => UNCHANGED <<queue, isFlushing, isShuttingDown, flushTimer, tasks, batches>>]_vars

\* C6 witness: the queue is shutting down and an event was pushed that is
\* neither queued nor in any snapshot, with nothing ever evicted.
C6_Witness ==
  /\ isShuttingDown
  /\ pushed \in 1..MAX_QUEUE_SIZE
  /\ pushed \notin Dispatched
  /\ queue = <<>>

\* C7 as stated: isFlushing and isShuttingDown are never both true.
C7_Original == ~(isFlushing /\ isShuttingDown)

\* C7 amended: the two flags can both be true, namely while a flush that was
\* started before the signal is still in flight; what holds is that no flush
\* starts once isShuttingDown is set (isFlushing never turns true under it).
C7_NoFlushStartsInShutdown ==
  [][isShuttingDown => (isFlushing' => isFlushing)]_vars

\* C7 witness: a signal was handled while a flush is waiting in a retry delay
C7_Witness ==
  /\ isShuttingDown
  /\ isFlushing
  /\ tasks[FlushTask].phase = "delay"
  /\ pushed > Len(tasks[FlushTask].logs)

\* C8: when a shutdown reports completion, no batch is still in flight or
\* waiting in a retry delay and the queue is empty.
C8_NothingInFlightAtCompletion ==
  shutdownComplete > 0 => (queue = <<>> /\ \A t \in TaskIds : ~InFlight(t))

\* C9: k events (0 < k < threshold) pushed into an idle queue and then one
\* signal: the signal starts the one dispatch sequence of the run, over
\* exactly those k events; no other sequence starts afterwards; the sequence
\* has finished when that shutdown reports completion; the timer never fires
\* after the signal.
C9_ShutdownDrain ==
  /\ [][(/\ signals = 0 /\ signals' = 1
         /\ ~isFlushing /\ \A t \in TaskIds : ~InFlight(t)
         /\ Len(queue) > 0 /\ Len(queue) < BATCH_SIZE)
          => /\ batches' = Append(batches, queue)
             /\ queue' = <<>>
             /\ (tasks'[1].phase = "post" => tasks'[1].logs = queue)
             /\ (tasks'[1].phase = "none" => shutdownComplete' = 1)]_vars
  /\ [][isShuttingDown => batches' = batches]_vars
  /\ [](signals = 1 /\ shutdownComplete = 1 => ~InFlight(1))
  /\ [](~tickedAfterSignal)

\* C9 witness: the drain of the single queued event is on its last attempt
\* and is the only dispatch sequence of the run.
C9_Witness ==
  /\ signals = 1
  /\ batches = <<Events(0, pushed)>>
  /\ pushed \in 1..(BATCH_SIZE - 1)
  /\ tasks[1].phase = "post"
  /\ tasks[1].attempt = MAX_RETRIES
  /\ tasks[1].logs = Events(0, pushed)
  /\ shutdownComplete = 0
  /\ ~isFlushing

\* C10: every admitted event is in at most one dispatched batch and never
\* both queued and dispatched; a snapshot takes the whole queue and leaves it
\* empty; a push never alters a batch in flight.
C10_NoEventInTwoBatches ==
  /\ [](/\ \A i, j \in 1..Len(batches) :
             i # j => Range(batches[i]) \cap Range(batches[j]) = {}
        /\ \A i \in 1..Len(batches) :
             Cardinality(Range(batches[i])) = Len(batches[i])
        /\ Range(queue) \cap Dispatched = {})
  /\ [][batches' # batches => queue' = <<>>]_vars
  /\ [][PushStep => \A t \in TaskIds :
          InFlight(t) => (InFlight(t)' /\ tasks'[t].logs = tasks[t].logs)]_vars

\* C10 witness: a second signal was handled after the first one's drain and
\* an earlier flush had each taken their own events.
C10_Witness ==
  /\ signals = 2
  /\ Len(batches) >= 2
  /\ InFlight(FlushTask)
  /\ InFlight(1)
  /\ Range(tasks[FlushTask].logs) \cap Range(tasks[1].logs) = {}

\* the chain of task t got the answer to its outstanding request in this step
Answered(t) ==
  /\ lastOp' \in Answers
  /\ tasks[t].phase = "post"
  /\ tasks'[t] # tasks[t]
Failures == Answers \ {"2xx"}

\* C11: a push that brings the queue to the batch threshold while no flush is
\* in flight starts a flush inside that push: on return the queue is empty,
\* isFlushing is true and the batch holds every queued event; while a flush is
\* in flight the request is ignored and the event stays queued.
C11_SizeTrigger ==
  [][(PushStep /\ ~isShuttingDown /\ Len(queue) + 1 >= BATCH_SIZE)
       => IF ~isFlushing
            THEN /\ queue' = <<>>
                 /\ isFlushing'
                 /\ InFlight(FlushTask)'
                 /\ batches' = Append(batches, tasks'[FlushTask].logs)
                 /\ Range(tasks'[FlushTask].logs)
                      = (Range(queue) \cup {pushed + 1})
                          \ (IF Len(queue) >= MAX_QUEUE_SIZE THEN {queue[1]} ELSE {})
            ELSE /\ queue' # <<>>
                 /\ queue'[Len(queue')] = pushed + 1
                 /\ UNCHANGED <<isFlushing, tasks, batches>>]_vars

\* C11 witness: the push that has just returned started the flush of exactly
\* threshold-many events
C11_Witness ==
  /\ lastOp = "push"
  /\ ~isShuttingDown
  /\ queue = <<>>
  /\ isFlushing
  /\ tasks[FlushTask].phase = "post"
  /\ Len(tasks[FlushTask].logs) = BATCH_SIZE

\* C12: a timer tick with a non-empty queue and no flush in flight starts a
\* flush of all queued events; a tick with an empty queue or during a flush
\* changes neither the queue, the flags nor the batch in flight.
C12_TimeTrigger ==
  [][lastOp' = "tick"
       => IF Len(queue) > 0 /\ ~isFlushing
            THEN /\ queue' = <<>>
                 /\ batches' = Append(batches, queue)
                 /\ isConfigValid
                      => /\ isFlushing'
                         /\ tasks'[FlushTask].phase = "post"
                         /\ tasks'[FlushTask].logs = queue
            ELSE UNCHANGED <<queue, isFlushing, isShuttingDown, tasks, batches>>]_vars

\* C12 witness: a tick has just flushed a single queued event
C12_Witness ==
  /\ lastOp = "tick"
  /\ queue = <<>>
  /\ isFlushing
  /\ tasks[FlushTask].phase = "post"
  /\ Len(tasks[FlushTask].logs) = 1

\* C13: isFlushing is true exactly while the dispatch of a flush is in
\* progress (it is cleared when the dispatch ends, however it ends), and
\* under fair scheduling it is always eventually false again.
C13_FlushingCleared ==
  /\ [](isFlushing <=> InFlight(FlushTask))
  /\ [](isFlushing => <>(~isFlushing))

\* C13 witness: a flush has just exhausted its retry budget and the flag is clear
C13_Witness ==
  /\ lastOp = "error"
  /\ signals = 0
  /\ batches # <<>>
  /\ ~InFlight(FlushTask)
  /\ ~isFlushing

\* C14: against a remote end that never answers 2xx a batch is attempted
\* exactly 3 times (attempt 1 at its start, one more after each retry delay,
\* never a fourth), waits 1000 ms after attempt 1 and 2000 ms after attempt 2,
\* and is dropped by the failure of attempt 3.
C14_ThreeAttempts ==
  /\ [](\A t \in TaskIds :
          /\ tasks[t].attempt <= 3
          /\ tasks[t].phase = "delay"
               => \/ tasks[t].attempt = 1 /\ tasks[t].wait = 1000
                  \/ tasks[t].attempt = 2 /\ tasks[t].wait = 2000)
  /\ [][\A t \in TaskIds :
          /\ Transmits(t)
               => \/ tasks[t].phase = "none" /\ tasks'[t].attempt = 1
                  \/ /\ tasks[t].phase = "delay"
                     /\ tasks'[t].attempt = tasks[t].attempt + 1
                     /\ tasks'[t].logs = tasks[t].logs
          /\ Answered(t)
               => IF tasks[t].attempt < 3
                    THEN tasks'[t].phase = "delay"
                    ELSE tasks'[t] = Idle]_vars

\* C14 witness: a batch is waiting out the second delay
C14_Witness ==
  \E t \in TaskIds :
    /\ tasks[t].phase = "delay"
    /\ tasks[t].attempt = 2
    /\ tasks[t].wait = 2000
    /\ isConfigValid

\* C15: when the transmission of event k fails in attempt n < 3 nothing more
\* of the batch is transmitted in attempt n, and attempt n+1 transmits the
\* same batch again from its first event.
C15_RetryFromStart ==
  [][\A t \in TaskIds :
       /\ (Answered(t) /\ lastOp' \in Failures /\ tasks[t].attempt < MAX_RETRIES)
            => /\ tasks'[t].phase = "delay"
               /\ tasks'[t].idx = tasks[t].idx
               /\ tasks'[t].attempt = tasks[t].attempt
               /\ tasks'[t].logs = tasks[t].logs
       /\ (tasks[t].phase = "delay" /\ tasks'[t] # tasks[t])
            => \/ tasks'[t] = Idle
               \/ /\ tasks'[t].phase = "post"
                  /\ tasks'[t].idx = 1
                  /\ tasks'[t].attempt = tasks[t].attempt + 1
                  /\ tasks'[t].logs = tasks[t].logs]_vars

\* C15 witness: in a retry the first event has been sent once more and the
\* second one is on the wire
C15_Witness ==
  \E t \in TaskIds :
    /\ tasks[t].phase = "post"
    /\ tasks[t].attempt >= 2
    /\ tasks[t].idx >= 2

\* C16: the failure of attempt 3 reaches no caller: the rejection is caught,
\* the batch is dropped, the flush's flag is cleared and the queue, the
\* shutdown flag and the timer are as they were.
C16_ExhaustionContained ==
  /\ [](~uncaught)
  /\ [][\A t \in TaskIds :
          (Answered(t) /\ lastOp' \in Failures /\ tasks[t].attempt = MAX_RETRIES)
            => /\ tasks'[t] = Idle
               /\ (t = FlushTask => ~isFlushing')
               /\ UNCHANGED <<queue, isShuttingDown, flushTimer, batches, pushed>>]_vars

\* C16 witness: the drain of a shutdown has just exhausted its attempts
C16_Witness ==
  /\ lastOp = "non2xx"
  /\ signals = 1
  /\ shutdownComplete = 1
  /\ ~isFlushing
  /\ batches # <<>>
  /\ \A t \in TaskIds : ~InFlight(t)

\* C17: a flush or drain started while the credential or the endpoint is
\* empty snapshots and empties the queue but transmits nothing, schedules no
\* retry and raises nothing; the flush's flag is cleared by its reactions.
C17_ConfigGating ==
  /\ [][(batches' # batches /\ ~(config.apiKey # "" /\ config.baseUrl # ""))
          => /\ queue' = <<>>
             /\ \A t \in TaskIds : ~Transmits(t) /\ ~(OnWire(t)' /\ ~OnWire(t))
             /\ uncaught' = uncaught
             /\ (lastOp' = "push" => tasks'[FlushTask].phase = "settling")
             /\ (lastOp' # "push" => tasks' = tasks /\ isFlushing' = isFlushing)]_vars
  /\ [][tasks[FlushTask].phase = "settling" /\ tasks'[FlushTask] # tasks[FlushTask]
          => tasks'[FlushTask] = Idle /\ ~isFlushing']_vars

\* C17 witness: a push has flushed threshold-many events under a
\* configuration whose credential alone is empty
C17_Witness ==
  /\ config.apiKey = ""
  /\ config.baseUrl # ""
  /\ tasks[FlushTask].phase = "settling"
  /\ Len(tasks[FlushTask].logs) >= BATCH_SIZE
  /\ queue = <<>>

\* C18: only a 2xx answer lets an attempt go on to the next event or end the
\* batch as delivered; any other answer (another status, a network error, a
\* timeout) stops the attempt and leads to the retry delay or, in attempt 3,
\* to the end of the batch.
C18_Only2xxSucceeds ==
  [][\A t \in TaskIds :
       Answered(t)
         => IF lastOp' = "2xx"
              THEN \/ /\ tasks[t].idx < Len(tasks[t].logs)
                      /\ tasks'[t] = [tasks[t] EXCEPT !.idx = tasks[t].idx + 1]
                   \/ /\ tasks[t].idx = Len(tasks[t].logs)
                      /\ tasks'[t] = Idle
              ELSE /\ ~Transmits(t)
                   /\ tasks'[t].phase = (IF tasks[t].attempt < 3 THEN "delay" ELSE "none")]_vars

\* C18 witness: a non-2xx status has sent a flush into its retry delay with
\* events of the batch still untransmitted
C18_Witness ==
  /\ lastOp = "non2xx"
  /\ signals = 0
  /\ tasks[FlushTask].phase = "delay"
  /\ tasks[FlushTask].idx < Len(tasks[FlushTask].logs)

\* C19: every batch lists its events in push order, and within an attempt
\* they are transmitted one at a time in that order: a transmission is either
\* the first event of an attempt or the successor of the event whose 2xx
\* answer has just arrived.
C19_SequentialInOrder ==
  /\ [](\A t \in TaskIds : \A i, j \in 1..Len(tasks[t].logs) :
          i < j => tasks[t].logs[i] < tasks[t].logs[j])
  /\ [](\A t \in TaskIds : tasks[t].phase = "post" => tasks[t].idx \in 1..Len(tasks[t].logs))
  /\ [][\A t \in TaskIds :
          Transmits(t)
            => \/ tasks'[t].idx = 1 /\ tasks[t].phase # "post"
               \/ /\ tasks[t].phase = "post"
                  /\ lastOp' = "2xx"
                  /\ tasks'[t].idx = tasks[t].idx + 1
                  /\ tasks'[t].attempt = tasks[t].attempt
                  /\ tasks'[t].logs = tasks[t].logs]_vars

\* C19 witness: the last event of a batch of several is on the wire after
\* the 2xx answer to the one before it
C19_Witness ==
  \E t \in TaskIds :
    /\ lastOp = "2xx"
    /\ tasks[t].phase = "post"
    /\ tasks[t].attempt = 1
    /\ Len(tasks[t].logs) >= 2
    /\ tasks[t].idx = Len(tasks[t].logs)

\* some sensitive pattern occurs in the name
SensitiveName(key) ==
  \E p \in PatternIds : \E lit \in SENSITIVE_PATTERNS[p] :
    \E s \in 0..Len(key) : MatchAt(lit, key, s)

\* in the returned tree every value under a sensitive name is the marker,
\* at every depth
RECURSIVE AllRedacted(_)
AllRedacted(out) ==
  \/ out.t = "str"
  \/ /\ out.t \in {"obj", "arr"}
     /\ \A i \in 1..Len(out.ents) :
          IF out.t = "obj" /\ SensitiveName(out.ents[i].k)
            THEN out.ents[i].v.t = "str" /\ out.ents[i].v.s = "[REDACTED]"
            ELSE AllRedacted(out.ents[i].v)

\* C20: whatever sanitize calls came before, every value under a sensitive
\* name, at any depth of what sanitize returns, is "[REDACTED]".
C20_Redaction == AllRedacted(sanOut)

\* what sanitize returns for the argument when no call came before it
FreshOut(in) == sanitize(in, [p \in PatternIds |-> 0]).out

\* C21: sanitize is stateless: what a call returns is a function of its
\* argument alone, so every call returns what the same argument yields when
\* no sanitize call was made before it (two calls with equal arguments then
\* return equal values).
C21_Stateless == sanOut = FreshOut(sanIn)

\* a returned object with the given entries
OutObj(ents) == [t |-> "obj", ents |-> ents]

\* C22: sanitize of {user: {name, password}, auth: {token}} keeps the
\* nesting: user.name is unchanged, user.password and auth.token are
\* "[REDACTED]".
C22_NestedRedaction ==
  sanIn = NestedInput =>
    sanOut = OutObj(<<Entry(K_user, OutObj(<<Entry(K_name, Str("john")),
                                             Entry(K_password, REDACTED)>>)),
                      Entry(K_auth, OutObj(<<Entry(K_token, REDACTED)>>))>>)

\* the composites of a returned tree
RECURSIVE Composites(_)
RECURSIVE CompositesFrom(_, _)
CompositesFrom(ents, i) ==
  IF i > Len(ents) THEN 0 ELSE Composites(ents[i].v) + CompositesFrom(ents, i + 1)
Composites(out) ==
  IF out.t = "str" THEN 0 ELSE 1 + CompositesFrom(out.ents, 1)

\* the markers "[Circular Reference]" of a returned tree
RECURSIVE Markers(_)
RECURSIVE MarkersFrom(_, _)
MarkersFrom(ents, i) ==
  IF i > Len(ents) THEN 0 ELSE Markers(ents[i].v) + MarkersFrom(ents, i + 1)
Markers(out) ==
  IF out.t = "str"
    THEN IF out.s = "[Circular Reference]" THEN 1 ELSE 0
    ELSE MarkersFrom(out.ents, 1)

\* the references to composites that a node of the argument holds
RefsOf(node) == {i \in 1..Len(node.ents) : node.ents[i].v.t = "ref"}

\* no composite occurs twice in an expansion log
ExpandedOnce(exp) == \A i, j \in 1..Len(exp) : exp[i] = exp[j] => i = j

\* C23: from every state a sanitize call on any argument, cyclic or not,
\* returns, having expanded each composite at most once; the returned tree
\* has one composite per expansion, so it is no larger than the argument; a
\* composite met again is returned as "[Circular Reference]", and
\* {name, self: itself} yields self = "[Circular Reference]" with name kept.
C23_CyclesTerminate ==
  /\ \A in \in Inputs :
       LET r == sanitize(in, lastIndex)
       IN ExpandedOnce(r.exp) /\ Len(r.exp) <= Len(in.heap)
  /\ ExpandedOnce(sanExpanded)
  /\ Composites(sanOut) = Len(sanExpanded)
  /\ (\A n \in 1..Len(sanIn.heap) : RefsOf(sanIn.heap[n]) = {}) => Markers(sanOut) = 0
  /\ sanIn = CircularInput =>
       sanOut = OutObj(<<Entry(K_name, Str("john")), Entry(K_self, CIRCULAR)>>)

\* sanitize was called on the object that refers to itself and returned the
\* marker in place of the reference
C23_Witness ==
  /\ sanIn = CircularInput
  /\ sanExpanded = <<1>>
  /\ Markers(sanOut) = 1

\* C24: capSize returns a string of more than MAX_BODY_SIZE characters as
\* its first MAX_BODY_SIZE characters followed by the truncation marker and
\* a shorter string unchanged; a structured value whose serialization is
\* longer than MAX_BODY_SIZE is returned as the first MAX_BODY_SIZE
\* characters of the serialization followed by the marker, any other
\* structured value is returned as it is.
C24_SizeCapping ==
  LET text == IF capIn.t = "string" THEN capIn.chars ELSE safeStringify(capIn.in)
  IN IF Len(text) > MAX_BODY_SIZE
       THEN /\ capOut.t = "string"
            /\ Len(capOut.chars) = MAX_BODY_SIZE + Len(TRUNCATED)
            /\ \A i \in 1..MAX_BODY_SIZE : capOut.chars[i] = text[i]
            /\ \A i \in 1..Len(TRUNCATED) : capOut.chars[MAX_BODY_SIZE + i] = TRUNCATED[i]
       ELSE capOut = capIn

\* capSize has cut the serialization of a structured value
C24_Witness ==
  /\ capIn.t = "value"
  /\ capOut.t = "string"
  /\ Len(capOut.chars) = MAX_BODY_SIZE + Len(TRUNCATED)

\* sanitizeHeaders returned the names it was given, in place
SameHeaderNames ==
  /\ Len(hdrOut) = Len(hdrIn)
  /\ \A i \in 1..Len(hdrIn) : hdrOut[i].k = hdrIn[i].k

\* C25 as stated: a header's value is replaced by "[REDACTED]" exactly when
\* its lower-cased name is authorization, cookie or api-key or contains
\* "token" or "secret"; the other headers keep their values and no header
\* is added or removed.
C25_Original ==
  /\ SameHeaderNames
  /\ \A i \in 1..Len(hdrIn) :
       LET lowerKey == toLowerCase(hdrIn[i].k)
       IN IF \/ lowerKey \in {H_authorization, H_cookie, H_api_key}
             \/ Includes(lowerKey, K_token)
             \/ Includes(lowerKey, <<"s", "e", "c", "r", "e", "t">>)
            THEN hdrOut[i].v = "[REDACTED]"
            ELSE hdrOut[i].v = hdrIn[i].v

\* C25 amended: the exact names are authorization, cookie and x-api-key (a
\* header named api-key passes through); the rest is as stated.
C25_HeaderRedaction ==
  /\ SameHeaderNames
  /\ \A i \in 1..Len(hdrIn) :
       LET lowerKey == toLowerCase(hdrIn[i].k)
       IN IF \/ lowerKey \in {H_authorization, H_cookie, H_x_api_key}
             \/ Includes(lowerKey, K_token)
             \/ Includes(lowerKey, <<"s", "e", "c", "r", "e", "t">>)
            THEN hdrOut[i].v = "[REDACTED]"
            ELSE hdrOut[i].v = hdrIn[i].v

\* sanitizeHeaders was given x-api-key and api-key: the first is redacted,
\* the second passes through
C25_Witness ==
  /\ Len(hdrIn) = 2
  /\ hdrIn[1].k = H_x_api_key /\ hdrOut[1].v = "[REDACTED]"
  /\ hdrIn[2].k = H_api_key /\ hdrOut[2].v = "v"

\* C26 as stated: the wire events made from one event, in whichever
\* attempts, are equal, trace identifier included, also when the event
\* carries no correlation id.
C26_Original ==
  \A i, j \in 1..Len(trPosts) : trPosts[i].data = trPosts[j].data

\* C26 amended: the wire events made from one event are equal in every
\* field but the trace identifier; the trace identifier is the event's
\* correlation id when it carries one (so the wire events are then equal),
\* and is otherwise generated at each transformation from the clock and a
\* random string.
C26_WireEventOfEvent ==
  /\ \A i, j \in 1..Len(trPosts) :
       [trPosts[i].data EXCEPT !.trace_id = ""] = [trPosts[j].data EXCEPT !.trace_id = ""]
  /\ \A i \in 1..Len(trPosts) :
       IF trEvent.requestId # ""
         THEN trPosts[i].data.trace_id = trEvent.requestId
         ELSE \E t \in 0..trNow, rnd \in Randoms : trPosts[i].data.trace_id = <<"trace", t, rnd>>

\* an event with a correlation id was sent in two attempts, at different
\* times, and the two wire events are equal
C26_Witness ==
  /\ Len(trPosts) = 2
  /\ trEvent.requestId = "req_1"
  /\ trNow > 0
  /\ trPosts[1].data = trPosts[2].data

\* C27: every transmission made under a valid configuration carries the
\* configured API key in the request header X-API-Key.
C27_ApiKeyHeader ==
  \A i \in 1..Len(trPosts) :
    /\ "X-API-Key" \in DOMAIN trPosts[i].headers
    /\ trPosts[i].headers["X-API-Key"] = config.apiKey

\* C28 (under FirstFailsSpec, where every attempt before the current one
\* made a single, failed, transmission): when the last event of a batch of
\* BATCH_SIZE events is answered 2xx, two transmissions have been made for
\* the batch in all.
C28_TwoTransmissions ==
  [][\A t \in TaskIds :
       (/\ Answered(t)
        /\ lastOp' = "2xx"
        /\ tasks'[t].phase = "none"
        /\ Len(tasks[t].logs) = BATCH_SIZE)
         => (tasks[t].attempt - 1) + tasks[t].idx = 2]_vars

\* C29: when the error middleware has handled an error for a request, the
\* LogEvent pushed when the response finishes carries an error field with
\* that error's message.
C29_ErrorCaptured ==
  (mwReq.phase = "finished" /\ mwReq.locals # Undefined)
    => /\ mwReq.logEvent.error # Undefined
       /\ mwReq.logEvent.error.message = mwReq.locals.message

\* C30: when logQueue.push throws while a finished request is recorded, the
\* exception does not reach the host: the request has completed with the
\* response the host sent.
C30_PushFailureSwallowed ==
  /\ ~mwCrash
  /\ mwReq.push = "threw"
       => /\ mwReq.phase = "finished"
          /\ mwReq.logEvent.response.statusCode = mwReq.statusCode

\* a request has finished, logQueue.push threw, and nothing reached the host
C30_Witness ==
  /\ mwReq.phase = "finished"
  /\ mwReq.push = "threw"
  /\ ~mwCrash

\* C31 as stated: after updateConfig with an empty apiKey or an empty
\* baseUrl isConfigValid() is false, and after updateConfig with both
\* non-empty it is true, whatever the environment variables are.
C31_Original ==
  [][\A c \in ExplicitConfigs :
       UpdateConfig(c) => (isValid(config') <=> (c.apiKey # "" /\ c.baseUrl # ""))]_vars

\* C31 amended: after updateConfig isConfigValid() is true exactly when each
\* of apiKey and baseUrl is non-empty in the argument or, failing that, in
\* the environment variable at the time of the call; so it is true after a
\* call with both non-empty, and false after a call with an empty apiKey
\* (baseUrl) only if LOGSENTINEL_API_KEY (LOGSENTINEL_BASE_URL) is empty too.
C31_ConfigValidity ==
  [][\A c \in ExplicitConfigs :
       UpdateConfig(c) =>
         /\ isValid(config') <=> /\ (c.apiKey # "" \/ env.apiKey # "")
                                 /\ (c.baseUrl # "" \/ env.baseUrl # "")
         /\ (c.apiKey # "" /\ c.baseUrl # "") => isValid(config')]_vars

\* updateConfig was called with an empty apiKey while LOGSENTINEL_API_KEY was
\* set: the configuration holds the environment's key and is valid
C31_Witness ==
  /\ lastOp = "config"
  /\ config.apiKey = "env-key"
  /\ isValid(config)

\* C32: the shutdown sequence terminates: under fair scheduling of the
\* answers and the retry delays every termination signal is followed by its
\* 'shutdown complete', and the drained batch is attempted at most
\* MAX_RETRIES (3) times.
C32_ShutdownTerminates ==
  /\ \A n \in 1..MaxSignals : (signals >= n) ~> (shutdownComplete >= n)
  /\ [](\A t \in TaskIds \ {FlushTask} : tasks[t].attempt <= MAX_RETRIES)

\* C32 witness: the third attempt of the drained batch has just failed and
\* the shutdown is complete, while a flush that started before the signal
\* still waits for its first answer
C32_Witness ==
  /\ signals = 1
  /\ shutdownComplete = 1
  /\ lastOp = "error"
  /\ tasks[1] = Idle
  /\ tasks[FlushTask].phase = "post"
  /\ tasks[FlushTask].attempt = 1
  /\ tasks[FlushTask].idx = 1

\* C33: while no termination signal arrives, with the timer ticking and
\* every dispatch completing, no admitted event stays in the queue forever:
\* it leaves the queue, and it leaves it only by the capacity rule's eviction
\* (a push onto a full queue shifts the oldest out) or in a flush snapshot.
C33_NoEventStaysQueued ==
  /\ \A e \in 1..MaxPush : (e \in Range(queue)) ~> (e \notin Range(queue))
  /\ [][\A e \in Range(queue) \ Range(queue') :
          \/ /\ Len(batches') = Len(batches) + 1
             /\ e \in Range(LastBatch')
          \/ /\ PushStep
             /\ Len(queue) >= MAX_QUEUE_SIZE
             /\ e = Head(queue)]_vars

\* C33 witness: a tick has just taken the whole full queue into a flush
\* snapshot after an older event had been evicted from it
C33_Witness ==
  /\ signals = 0
  /\ lastOp = "tick"
  /\ queue = <<>>
  /\ batches # <<>>
  /\ Len(LastBatch) = MAX_QUEUE_SIZE
  /\ \E e \in 1..pushed : e \notin Dispatched /\ e < LastBatch[1]

\* C34: the completion of a flush does not start another flush: the step
\* that clears isFlushing leaves the queue and the snapshots alone and no
\* dispatch of a flush is in flight after it; a backlog of at least
\* BATCH_SIZE events without a flush in flight is taken out of the queue
\* only by a push or a timer tick (or by the drain of a shutdown); and right
\* after every push a queue of at least BATCH_SIZE events implies isFlushing.
C34_NoFlushOnCompletion ==
  /\ [][(isFlushing /\ ~isFlushing')
          => /\ UNCHANGED <<queue, batches>>
             /\ ~InFlight(FlushTask)']_vars
  /\ [][(Len(queue) >= BATCH_SIZE /\ ~isFlushing /\ queue' # queue)
          => lastOp' \in {"push", "tick", "signal"}]_vars
  /\ [][PushStep => (Len(queue') >= BATCH_SIZE => isFlushing')]_vars

\* C34 witness: the last answer has just ended a flush, and the events that
\* arrived during the dispatch, at least BATCH_SIZE of them, are still queued
\* with no flush in flight
C34_Witness ==
  /\ signals = 0
  /\ lastOp = "2xx"
  /\ ~isFlushing
  /\ ~InFlight(FlushTask)
  /\ Len(queue) >= BATCH_SIZE
  /\ batches # <<>>
  /\ \A i \in 1..Len(queue) : queue[i] > LastBatch[Len(LastBatch)]

\* C35: the validity of the configuration is evaluated at the start of
\* every attempt.  When a retry delay ends under a valid configuration the
\* batch is attempted again from its first event; when it ends under an
\* invalid one nothing is sent and the batch ends there as a success (no
\* retry, no rejection: the flush's flag is cleared, the shutdown completes).
\* And nothing is ever put on the wire but the batch of a chain that is
\* already on the wire or the batch snapshotted in this very step under a
\* valid configuration: a batch snapshotted under an invalid one is never sent.
C35_ValidityPerAttempt ==
  /\ [][\A t \in TaskIds :
          (tasks[t].phase = "delay" /\ tasks'[t] # tasks[t])
            => IF config.apiKey # "" /\ config.baseUrl # ""
                 THEN /\ tasks'[t].phase = "post"
                      /\ tasks'[t].logs = tasks[t].logs
                      /\ tasks'[t].attempt = tasks[t].attempt + 1
                      /\ tasks'[t].idx = 1
                 ELSE /\ tasks'[t] = Idle
                      /\ ~Transmits(t)
                      /\ uncaught' = uncaught
                      /\ lastOp' \notin Failures
                      /\ IF t = FlushTask
                           THEN ~isFlushing'
                           ELSE shutdownComplete' = shutdownComplete + 1]_vars
  /\ [][\A t \in TaskIds :
          Transmits(t)
            => \/ OnWire(t) /\ tasks'[t].logs = tasks[t].logs
               \/ /\ config.apiKey # "" /\ config.baseUrl # ""
                  /\ batches' = Append(batches, tasks'[t].logs)]_vars

\* C35 witness: the configuration became invalid during the retry delay of a
\* flush, and the delay's end has just finished the batch without sending
C35_Witness ==
  /\ signals = 0
  /\ lastOp = "delay"
  /\ ~(config.apiKey # "" /\ config.baseUrl # "")
  /\ batches # <<>>
  /\ ~isFlushing
  /\ tasks[FlushTask] = Idle

\* C36: the response is captured once per request: whichever patched method
\* the host calls, after the call and the calls nested in it the recorded
\* response is the one the first captureResponse made from the host's body,
\* and a recorded response is not changed again; and a request whose
\* response finishes has logQueue.push called for it exactly once: in the
\* finishing step and never after.
C36_CapturedOnce ==
  /\ [][\A res \in Responses, method \in Methods :
          Patched(method, res)
            => /\ mwReq'.responseCaptured
               /\ mwReq'.captureCalls = Len(CapturedBodies(method, res.body))
               /\ mwReq'.responseLog.statusCode = res.statusCode
               /\ mwReq'.responseLog.body = ResponseBody(res, lastIndex)]_vars
  /\ [][(mwReq.responseCaptured /\ mwReq'.responseLog # mwReq.responseLog)
          => (mwReq.phase = "finished" /\ mwReq'.requestLog # Undefined
                /\ mwReq'.responseLog = Undefined)]_vars
  /\ [][(mwReq.phase = "open" /\ mwReq'.phase = "finished")
          => /\ mwReq'.push \in {"pushed", "threw"}
             /\ mwReq'.logEvent.response = mwReq.responseLog
             /\ pushed' = (IF mwReq'.push = "pushed" THEN pushed + 1 ELSE pushed)]_vars
  /\ [][pushed' # pushed
          => (mwReq.phase = "open" /\ mwReq'.phase = "finished")]_vars

\* C36 witness: the host answered with res.json('a'), captureResponse ran
\* three times (json, send, end), the response finished and the one event
\* pushed carries the body recorded by the first call, not its serialization
C36_Witness ==
  /\ mwReq.phase = "finished"
  /\ mwReq.push = "pushed"
  /\ pushed = 1
  /\ mwReq.captureCalls = 3
  /\ mwReq.logEvent.response.body = CapString(<<"a">>)

====
